---- MODULE Spec2Model ----
(***************************************************************************)
(* A model of app.py of home-finance: the ledger aggregation               *)
(* calculate_metrics (a fold over the rows of the edited data frame) and   *)
(* the session state the Streamlit script keeps between its runs (the      *)
(* hidden model-list unlock, the model selection, the chat history).       *)
(*                                                                         *)
(* TLA+ strings are ASCII, so the localized labels of the source are       *)
(* written in pinyin; the definition of each label names the literal.      *)
(* Numbers are exact rationals [num, den]; NaN is the value with den = 0.  *)
(***************************************************************************)
EXTENDS Integers, Sequences, FiniteSets, TLC

VARIABLES
    \* calculate_metrics: its arguments, its locals, the value it returned
    df, usdtwd, thbtwd,
    total_asset, total_liability, monthly_income, monthly_expense,
    idx, result, cpc,
    \* the module-level frequency table
    FREQ_TO_MONTHS,
    \* the first completed call, kept for comparison with later calls
    first_call,
    \* the Streamlit script: st.secrets, st.session_state, the place the
    \* current run has reached, and the widget values of the current run
    secrets, session, pc, event,
    \* history: the clicks of the current-model button so far, and how the
    \* model call of the last press of the analysis button ended
    clicks, call_outcome

calc_vars == <<df, usdtwd, thbtwd, total_asset, total_liability,
               monthly_income, monthly_expense, idx, result, cpc,
               FREQ_TO_MONTHS, first_call>>

ui_vars == <<secrets, session, pc, event, clicks, call_outcome>>

vars == <<calc_vars, ui_vars>>

----------------------------------------------------------------------------
(* Bounds of the model. *)

\* the longest data frame of a call
MaxRows == 2

\* the most rounds of the chat a session is followed for
MaxChat == 2

----------------------------------------------------------------------------
(* Numbers: exact rationals in lowest terms, den > 0; NaN has den = 0. *)

Abs(n) == IF n < 0 THEN -n ELSE n

RECURSIVE GCD(_, _)
GCD(a, b) == IF b = 0 THEN a ELSE GCD(b, a % b)

NaN == [num |-> 0, den |-> 0]

Rat(n, d) ==
    IF d = 0 THEN NaN
    ELSE LET g == GCD(Abs(n), Abs(d))
             s == IF d < 0 THEN -1 ELSE 1
         IN  [num |-> (s * n) \div g, den |-> (s * d) \div g]

Zero == Rat(0, 1)

isna(x) == x.den = 0

\* x + y, as in  total += amount
Add(x, y) ==
    IF isna(x) \/ isna(y) THEN NaN
    ELSE Rat(x.num * y.den + y.num * x.den, x.den * y.den)

\* x * y, as in  amount *= usdtwd
Mul(x, y) ==
    IF isna(x) \/ isna(y) THEN NaN
    ELSE Rat(x.num * y.num, x.den * y.den)

\* x / n for a divisor n of the frequency branch, as in  amount / 3
Div(x, n) ==
    IF isna(x) THEN NaN ELSE Rat(x.num, x.den * n)

----------------------------------------------------------------------------
(* Cells of the data frame: a numeric cell holds a number (a missing cell  *)
(* is the number NaN), a text cell holds a string.  The Amount column's    *)
(* text is kept as its characters, since to_numeric parses it.             *)

Num(x) == [kind |-> "num", val |-> x]
Str(s) == [kind |-> "text", val |-> s]
Missing == Num(NaN)

\* the labels of the source
ZH_ASSET == "zichan"          \* '資產'
ZH_LIABILITY == "fuzhai"      \* '負債'
ZH_INCOME == "shouru"         \* '收入'
ZH_EXPENSE == "zhichu"        \* '支出'
ZH_MONTHLY == "meiyue"        \* "每月"
ZH_QUARTERLY == "meiji"       \* "每季"
ZH_YEARLY == "meinian"        \* "每年"
ZH_ONCE == "danci"            \* "單次"

\* FREQ_TO_MONTHS = {...}: the keys and their months
FreqTable ==
    [f \in {ZH_MONTHLY, "Monthly", ZH_QUARTERLY, "Quarterly", ZH_YEARLY, "Yearly"} |->
        CASE f \in {ZH_MONTHLY, "Monthly"} -> 1
          [] f \in {ZH_QUARTERLY, "Quarterly"} -> 3
          [] f \in {ZH_YEARLY, "Yearly"} -> 12]

\* the value dict.get gives for a key the table lacks
None == 0

\* table.get(freq): the months, or None
DictGet(table, freq) ==
    IF freq.kind = "text" /\ freq.val \in DOMAIN table THEN table[freq.val] ELSE None

\* row.get(key, default)
RowGet(row, key, default) ==
    IF key \in DOMAIN row THEN row[key] ELSE default

DigitVal ==
    [c \in {"0", "1", "2", "3", "4", "5", "6", "7", "8", "9"} |->
        CASE c = "0" -> 0 [] c = "1" -> 1 [] c = "2" -> 2 [] c = "3" -> 3
          [] c = "4" -> 4 [] c = "5" -> 5 [] c = "6" -> 6 [] c = "7" -> 7
          [] c = "8" -> 8 [] c = "9" -> 9]

RECURSIVE ParseDigits(_, _)
ParseDigits(chars, acc) ==
    IF chars = <<>> THEN acc
    ELSE ParseDigits(Tail(chars), 10 * acc + DigitVal[Head(chars)])

\* pd.to_numeric(cell, errors='coerce'): a number stays, a text of decimal
\* digits is parsed, any other text becomes NaN
to_numeric(cell) ==
    IF cell.kind = "num" THEN cell.val
    ELSE IF cell.val # <<>> /\ \A i \in 1..Len(cell.val) : cell.val[i] \in DOMAIN DigitVal
         THEN Rat(ParseDigits(cell.val, 0), 1)
         ELSE NaN

----------------------------------------------------------------------------
(* calculate_metrics, one piece per group of source lines. *)

AllColumns == {"Category", "Amount", "Currency", "Frequency"}

\* df.empty: no rows, or no columns
empty(d) == Len(d) = 0 \/ DOMAIN d[1] = {}

\* a variant that converts a USD amount a second time
ConvertTwice(amount, curr, usd, thb) ==
    IF curr = Str("USD") THEN Mul(Mul(amount, usd), usd)
    ELSE IF curr = Str("THB") THEN Mul(amount, thb)
    ELSE amount

\* if curr == 'USD': amount *= usdtwd / elif curr == 'THB': amount *= thbtwd
Convert(amount, curr, usd, thb) ==
    IF curr = Str("USD") THEN Mul(amount, usd)
    ELSE IF curr = Str("THB") THEN Mul(amount, thb)
    ELSE amount

\* a variant that takes a frequency the table lacks for a monthly one
AddMonthlyGuess(total, amount, freq, table) ==
    LET months == DictGet(table, freq) IN
    IF months = 3 THEN Add(total, Div(amount, 3))
    ELSE IF months = 12 THEN Add(total, Div(amount, 12))
    ELSE Add(total, amount)

\* months = FREQ_TO_MONTHS.get(freq) and the three branches on it: the total
\* after the row, from the total before it
AddMonthly(total, amount, freq, table) ==
    LET months == DictGet(table, freq) IN
    IF months = 1 THEN Add(total, amount)
    ELSE IF months = 3 THEN Add(total, Div(amount, 3))
    ELSE IF months = 12 THEN Add(total, Div(amount, 12))
    ELSE total

\* a variant that takes the English labels for the categories too
AccumulateAliases(t, cat, freq, amount, table) ==
    IF cat \in {Str(ZH_ASSET), Str("Asset")} THEN [t EXCEPT !.total_asset = Add(@, amount)]
    ELSE IF cat \in {Str(ZH_LIABILITY), Str("Liability")}
         THEN [t EXCEPT !.total_liability = Add(@, amount)]
    ELSE IF cat \in {Str(ZH_INCOME), Str("Income")}
         THEN [t EXCEPT !.monthly_income = AddMonthly(@, amount, freq, table)]
    ELSE IF cat \in {Str(ZH_EXPENSE), Str("Expense")}
         THEN [t EXCEPT !.monthly_expense = AddMonthly(@, amount, freq, table)]
    ELSE t

\* a variant that assigns an asset's amount to the total instead of adding it
AccumulateAssign(t, cat, freq, amount, table) ==
    IF cat = Str(ZH_ASSET) THEN [t EXCEPT !.total_asset = amount]
    ELSE IF cat = Str(ZH_LIABILITY) THEN [t EXCEPT !.total_liability = Add(@, amount)]
    ELSE IF cat = Str(ZH_INCOME)
         THEN [t EXCEPT !.monthly_income = AddMonthly(@, amount, freq, table)]
    ELSE IF cat = Str(ZH_EXPENSE)
         THEN [t EXCEPT !.monthly_expense = AddMonthly(@, amount, freq, table)]
    ELSE t

\* a variant whose last branch is an else: any other category is an expense
AccumulateElse(t, cat, freq, amount, table) ==
    IF cat = Str(ZH_ASSET) THEN [t EXCEPT !.total_asset = Add(@, amount)]
    ELSE IF cat = Str(ZH_LIABILITY) THEN [t EXCEPT !.total_liability = Add(@, amount)]
    ELSE IF cat = Str(ZH_INCOME)
         THEN [t EXCEPT !.monthly_income = AddMonthly(@, amount, freq, table)]
    ELSE [t EXCEPT !.monthly_expense = AddMonthly(@, amount, freq, table)]

\* the dispatch on cat: the four totals after the row
Accumulate(t, cat, freq, amount, table) ==
    IF cat = Str(ZH_ASSET) THEN [t EXCEPT !.total_asset = Add(@, amount)]
    ELSE IF cat = Str(ZH_LIABILITY) THEN [t EXCEPT !.total_liability = Add(@, amount)]
    ELSE IF cat = Str(ZH_INCOME)
         THEN [t EXCEPT !.monthly_income = AddMonthly(@, amount, freq, table)]
    ELSE IF cat = Str(ZH_EXPENSE)
         THEN [t EXCEPT !.monthly_expense = AddMonthly(@, amount, freq, table)]
    ELSE t

\* a variant without the check: no row is skipped
SkipRowNever(amount) == FALSE

\* if pd.isna(amount): continue
SkipRow(amount) == isna(amount)

\* the body of the loop: the four totals after one row
RowStep(t, row, usd, thb, table) ==
    LET amount == to_numeric(RowGet(row, "Amount", Num(Zero))) IN
    IF SkipRow(amount) THEN t
    ELSE LET curr == RowGet(row, "Currency", Str("TWD"))
             converted == Convert(amount, curr, usd, thb)
             cat == RowGet(row, "Category", Str(""))
             freq == RowGet(row, "Frequency", Str(""))
         IN  Accumulate(t, cat, freq, converted, table)

\* total_asset = 0; total_liability = 0; monthly_income = 0; monthly_expense = 0
ZeroTotals ==
    [total_asset |-> Zero, total_liability |-> Zero,
     monthly_income |-> Zero, monthly_expense |-> Zero]

RECURSIVE Loop(_, _, _, _, _)
Loop(t, rows, usd, thb, table) ==
    IF rows = <<>> THEN t
    ELSE Loop(RowStep(t, Head(rows), usd, thb, table), Tail(rows), usd, thb, table)

AsTuple(t) == <<t.total_asset, t.total_liability, t.monthly_income, t.monthly_expense>>

\* the function as a whole: the four-tuple it returns
calculate_metrics(d, usd, thb, table) ==
    IF empty(d) THEN <<Zero, Zero, Zero, Zero>>
    ELSE AsTuple(Loop(ZeroTotals, d, usd, thb, table))

----------------------------------------------------------------------------
(* The inputs of a call. *)

Row(cat, amt, cur, freq) ==
    [Category |-> cat, Amount |-> amt, Currency |-> cur, Frequency |-> freq]

ZhCategories == {ZH_ASSET, ZH_LIABILITY, ZH_INCOME, ZH_EXPENSE}
EnCategories == {"Asset", "Liability", "Income", "Expense"}

AmountCells ==
    {Num(Rat(12, 1)), Num(Rat(-30, 1)), Str(<<"7">>), Str(<<"N", "/", "A">>), Missing}

CurrencyCells == {Str("TWD"), Str("USD"), Str("THB"), Str("EUR"), Missing}

FrequencyCells ==
    {Str(f) : f \in {ZH_MONTHLY, "Monthly", ZH_QUARTERLY, "Quarterly",
                     ZH_YEARLY, "Yearly", ZH_ONCE, "One-time"}} \cup {Missing}

\* rows that vary the category, the amount, the currency and the frequency
\* around rows of the ledger categories
RowUniverse ==
    {Row(Str(c), Num(Rat(12, 1)), Str("USD"), Str(ZH_QUARTERLY)) :
        c \in ZhCategories \cup EnCategories \cup {"Other"}}
    \cup {Row(Str(c), a, Str("THB"), Str("Yearly")) :
            c \in {ZH_ASSET, ZH_INCOME}, a \in AmountCells}
    \cup {Row(Str(ZH_ASSET), Num(Rat(12, 1)), cur, Str(ZH_MONTHLY)) : cur \in CurrencyCells}
    \cup {Row(Str(ZH_INCOME), Num(Rat(12, 1)), Str("USD"), f) : f \in FrequencyCells}
    \cup {Row(Str(ZH_EXPENSE), Num(Rat(-30, 1)), Str("THB"), Str(f)) :
            f \in {"Monthly", ZH_YEARLY, ZH_ONCE}}

\* the column sets of a data frame: all five columns of the sample file less
\* Item, or a file that lacks some of them
ColumnSets ==
    {AllColumns, {"Category", "Amount"}, {"Category", "Currency", "Frequency"},
     {"Amount", "Currency"}}

Project(row, cols) == [k \in cols |-> row[k]]

SeqsUpTo(S, n) == UNION {[1..k -> S] : k \in 0..n}

Frames(rows, n) ==
    {[i \in DOMAIN s |-> Project(s[i], cols)] : s \in SeqsUpTo(rows, n), cols \in ColumnSets}

\* USD/TWD and THB/TWD: the defaults of the two number inputs (31.5, 0.96),
\* and other values the inputs accept, zero and negative ones included
RatePairs ==
    {<<Rat(63, 2), Rat(24, 25)>>, <<Rat(0, 1), Rat(-3, 1)>>}

\* the inputs of the specification of repeated calls
RepeatRows ==
    {Row(Str(ZH_ASSET), Num(Rat(12, 1)), Str("USD"), Missing),
     Row(Str(ZH_INCOME), Str(<<"7">>), Str("THB"), Str("Quarterly")),
     Row(Str(ZH_ASSET), Str(<<"N", "/", "A">>), Str("TWD"), Missing)}

RepeatFrames == SeqsUpTo(RepeatRows, MaxRows)

RepeatRates == RatePairs

----------------------------------------------------------------------------
(* The state machine of calculate_metrics. *)

Unset == <<>>
NoCall == [made |-> FALSE]

Totals ==
    [total_asset |-> total_asset, total_liability |-> total_liability,
     monthly_income |-> monthly_income, monthly_expense |-> monthly_expense]

\* a variant whose totals outlive the call: accumulators kept outside it
EntryTotalsKept == Totals

\* what the locals hold on entry: the zeros of the first line of the function
EntryTotals == ZeroTotals

\* a variant whose early return gives no value
EnterReturnsNone ==
    /\ cpc = "call"
    /\ total_asset' = EntryTotals.total_asset
    /\ total_liability' = EntryTotals.total_liability
    /\ monthly_income' = EntryTotals.monthly_income
    /\ monthly_expense' = EntryTotals.monthly_expense
    /\ IF empty(df)
       THEN /\ result' = Unset
            /\ cpc' = "returned"
            /\ idx' = idx
       ELSE /\ idx' = 1
            /\ cpc' = "loop"
            /\ result' = result
    /\ UNCHANGED <<df, usdtwd, thbtwd, FREQ_TO_MONTHS, first_call>>
    /\ UNCHANGED ui_vars

\* def calculate_metrics(df, usdtwd, thbtwd): the totals are zeroed, and an
\* empty frame returns at once
Enter ==
    /\ cpc = "call"
    /\ total_asset' = EntryTotals.total_asset
    /\ total_liability' = EntryTotals.total_liability
    /\ monthly_income' = EntryTotals.monthly_income
    /\ monthly_expense' = EntryTotals.monthly_expense
    /\ IF empty(df)
       THEN /\ result' = <<Zero, Zero, Zero, Zero>>
            /\ cpc' = "returned"
            /\ idx' = idx
       ELSE /\ idx' = 1
            /\ cpc' = "loop"
            /\ result' = result
    /\ UNCHANGED <<df, usdtwd, thbtwd, FREQ_TO_MONTHS, first_call>>
    /\ UNCHANGED ui_vars

\* for _, row in df.iterrows(): one row
Iterate ==
    /\ cpc = "loop"
    /\ idx <= Len(df)
    /\ LET t == RowStep(Totals, df[idx], usdtwd, thbtwd, FREQ_TO_MONTHS) IN
        /\ total_asset' = t.total_asset
        /\ total_liability' = t.total_liability
        /\ monthly_income' = t.monthly_income
        /\ monthly_expense' = t.monthly_expense
    /\ idx' = idx + 1
    /\ UNCHANGED <<df, usdtwd, thbtwd, result, cpc, FREQ_TO_MONTHS, first_call>>
    /\ UNCHANGED ui_vars

\* return total_asset, total_liability, monthly_income, monthly_expense
Return ==
    /\ cpc = "loop"
    /\ idx > Len(df)
    /\ result' = AsTuple(Totals)
    /\ cpc' = "returned"
    /\ UNCHANGED <<df, usdtwd, thbtwd, total_asset, total_liability,
                   monthly_income, monthly_expense, idx, FREQ_TO_MONTHS, first_call>>
    /\ UNCHANGED ui_vars

\* the next run of the script calls the function again, on the frame and the
\* rates of that run
NewCall ==
    /\ cpc = "returned"
    /\ first_call' = IF first_call.made THEN first_call
                     ELSE [made |-> TRUE, df |-> df, usdtwd |-> usdtwd,
                           thbtwd |-> thbtwd, result |-> result]
    /\ \E d \in RepeatFrames, r \in RepeatRates :
        /\ df' = d
        /\ usdtwd' = r[1]
        /\ thbtwd' = r[2]
    /\ cpc' = "call"
    /\ UNCHANGED <<total_asset, total_liability, monthly_income, monthly_expense,
                   idx, result, FREQ_TO_MONTHS>>
    /\ UNCHANGED ui_vars

CalcInit(frames, rates) ==
    /\ df \in frames
    /\ \E r \in rates : usdtwd = r[1] /\ thbtwd = r[2]
    /\ total_asset = Zero /\ total_liability = Zero
    /\ monthly_income = Zero /\ monthly_expense = Zero
    /\ idx = 0
    /\ result = Unset
    /\ cpc = "call"
    /\ FREQ_TO_MONTHS = FreqTable
    /\ first_call = NoCall

----------------------------------------------------------------------------
(* The Streamlit script: one run per widget event or st.rerun().           *)

DEFAULT_MODEL_NAME == "models/gemini-2.5-flash-lite"

\* the clicks of the current-model button that unlock the model list
UnlockClicks == 5

ModelNames == {DEFAULT_MODEL_NAME, "models/gemini-2.5-pro", "models/gemini-2.0-flash"}

\* what genai.list_models() may give, filtered to generateContent
ModelLists ==
    {<<>>,
     <<"models/gemini-2.5-pro">>,
     <<"models/gemini-2.5-pro", DEFAULT_MODEL_NAME>>,
     <<DEFAULT_MODEL_NAME, "models/gemini-2.0-flash">>}

Questions == {"q1", "q2"}
Answers == {"a1"}

\* st.secrets: without GOOGLE_API_KEY, with an empty one, with a key
SecretsChoices ==
    {[has |-> FALSE, key |-> ""], [has |-> TRUE, key |-> ""], [has |-> TRUE, key |-> "k"]}

Ev(type, arg, uploaded) == [type |-> type, arg |-> arg, uploaded |-> uploaded]

\* what the widgets report to one run: the button pressed (if any), the model
\* picked in the select box, the text of the question, whether a readable
\* CSV file is uploaded
Events ==
    {Ev(t, "", u) : t \in {"none", "unlock", "toggle"}, u \in BOOLEAN}
    \cup {Ev("select", m, u) : m \in ModelNames, u \in BOOLEAN}
    \cup {Ev("analyze", q, u) : q \in Questions, u \in BOOLEAN}

NoSession == [k \in {} |-> 0]

Has(key) == key \in DOMAIN session

\* if key not in st.session_state: st.session_state[key] = value
SetDefault(s, key, value) == IF key \in DOMAIN s THEN s ELSE s @@ (key :> value)

\* st.session_state[key] = value
Put(s, key, value) == [k \in DOMAIN s \cup {key} |-> IF k = key THEN value ELSE s[k]]

\* the user acts on a widget (or merely waits) and the script runs from the top
BeginRun ==
    /\ pc = "idle"
    /\ \E e \in Events :
        /\ e.type = "analyze" /\ Has("chat_history")
              => Len(session["chat_history"]) < MaxChat
        /\ event' = e
    /\ pc' = "secrets"
    /\ call_outcome' = [status |-> "none", answer |-> ""]
    /\ UNCHANGED <<secrets, session, clicks>>
    /\ UNCHANGED calc_vars

\* api_key = st.secrets["GOOGLE_API_KEY"]; a KeyError stops the script
ReadSecrets ==
    /\ pc = "secrets"
    /\ pc' = IF secrets.has THEN "init" ELSE "idle"
    /\ UNCHANGED <<secrets, session, event, clicks, call_outcome>>
    /\ UNCHANGED calc_vars

\* the four  if ... not in st.session_state  initialisations
InitSession ==
    /\ pc = "init"
    /\ session' = SetDefault(SetDefault(SetDefault(SetDefault(session,
                      "chat_history", <<>>),
                      "show_model_list", FALSE),
                      "selected_model_name", DEFAULT_MODEL_NAME),
                      "dev_unlock_count", 0)
    /\ pc' = "sidebar"
    /\ UNCHANGED <<secrets, event, clicks, call_outcome>>
    /\ UNCHANGED calc_vars

\* if not show_model_list: the current-model button; a click counts
UnlockButton ==
    /\ pc = "sidebar"
    /\ ~session["show_model_list"]
    /\ IF event.type = "unlock"
       THEN /\ session' = Put(session, "dev_unlock_count", session["dev_unlock_count"] + 1)
            /\ clicks' = clicks + 1
            /\ pc' = "unlock_check"
       ELSE /\ pc' = "main"
            /\ UNCHANGED <<session, clicks>>
    /\ UNCHANGED <<secrets, event, call_outcome>>
    /\ UNCHANGED calc_vars

\* st.rerun(): the script starts over, no widget reporting an action
Rerun(e) == [e EXCEPT !.type = "none", !.arg = ""]

\* a variant that compares with > instead of >=
UnlockCheckLate ==
    /\ pc = "unlock_check"
    /\ IF session["dev_unlock_count"] > UnlockClicks
       THEN /\ session' = Put(Put(session, "show_model_list", TRUE), "dev_unlock_count", 0)
            /\ event' = Rerun(event)
            /\ pc' = "secrets"
       ELSE /\ pc' = "main"
            /\ UNCHANGED <<session, event>>
    /\ UNCHANGED <<secrets, clicks, call_outcome>>
    /\ UNCHANGED calc_vars

\* if dev_unlock_count >= 5: show the list, reset the count, rerun
UnlockCheck ==
    /\ pc = "unlock_check"
    /\ IF session["dev_unlock_count"] >= UnlockClicks
       THEN /\ session' = Put(Put(session, "show_model_list", TRUE), "dev_unlock_count", 0)
            /\ event' = Rerun(event)
            /\ pc' = "secrets"
       ELSE /\ pc' = "main"
            /\ UNCHANGED <<session, event>>
    /\ UNCHANGED <<secrets, clicks, call_outcome>>
    /\ UNCHANGED calc_vars

\* default_index: the place of the selected model in the list, or 0
DefaultChoice(available, selected) ==
    IF \E i \in 1..Len(available) : available[i] = selected
    THEN selected
    ELSE available[1]

\* st.selectbox: the model the user picked, or the one at default_index
SelectBox(available, selected, e) ==
    IF e.type = "select" /\ \E i \in 1..Len(available) : available[i] = e.arg
    THEN e.arg
    ELSE DefaultChoice(available, selected)

\* else: the select box of the models; list_models may raise
ModelSelect ==
    /\ pc = "sidebar"
    /\ session["show_model_list"]
    /\ \E raised \in BOOLEAN, available \in ModelLists :
        IF secrets.key = "" \/ raised \/ available = <<>>
        THEN /\ pc' = "main"
             /\ UNCHANGED <<session, event>>
        ELSE LET selected_model_name ==
                     SelectBox(available, session["selected_model_name"], event) IN
             IF selected_model_name # session["selected_model_name"]
             THEN /\ session' = Put(session, "selected_model_name", selected_model_name)
                  /\ event' = Rerun(event)
                  /\ pc' = "secrets"
             ELSE /\ pc' = "main"
                  /\ UNCHANGED <<session, event>>
    /\ UNCHANGED <<secrets, clicks, call_outcome>>
    /\ UNCHANGED calc_vars

\* the uploader: without a readable CSV file the script stops
LoadCsv ==
    /\ pc = "main"
    /\ pc' = IF event.uploaded THEN "kpi" ELSE "idle"
    /\ UNCHANGED <<secrets, session, event, clicks, call_outcome>>
    /\ UNCHANGED calc_vars

\* hide_kpi and its toggle button
ToggleKpi ==
    /\ pc = "kpi"
    /\ LET s == SetDefault(session, "hide_kpi", FALSE) IN
        session' = IF event.type = "toggle" THEN Put(s, "hide_kpi", ~s["hide_kpi"]) ELSE s
    /\ pc' = "chat"
    /\ UNCHANGED <<secrets, event, clicks, call_outcome>>
    /\ UNCHANGED calc_vars

\* generate_content(prompt) and response.text: an answer, or an exception
ModelOutcomes ==
    {[status |-> "raised", answer |-> ""]} \cup {[status |-> "ok", answer |-> a] : a \in Answers}

\* a variant that stores the round before the model has answered
AfterCallEager(chat, question, o) ==
    Append(chat, [question |-> question, answer |-> o.answer])

\* the chat history after a press of the analysis button whose model call
\* ended with outcome o
AfterCall(chat, question, o) ==
    IF o.status = "ok"
    THEN Append(chat, [question |-> question, answer |-> o.answer])
    ELSE chat

\* if st.button("Gemini 分析"): ...
GeminiButton ==
    /\ pc = "chat"
    /\ IF event.type = "analyze"
       THEN IF secrets.key = ""
            THEN /\ call_outcome' = [status |-> "warned", answer |-> ""]
                 /\ UNCHANGED session
            ELSE \E o \in ModelOutcomes :
                    /\ call_outcome' = o
                    /\ session' = Put(session, "chat_history",
                                      AfterCall(session["chat_history"], event.arg, o))
       ELSE UNCHANGED <<session, call_outcome>>
    /\ pc' = "idle"
    /\ UNCHANGED <<secrets, event, clicks>>
    /\ UNCHANGED calc_vars

UIInit(keys) ==
    /\ secrets \in keys
    /\ session = NoSession
    /\ pc = "idle"
    /\ event = Ev("none", "", FALSE)
    /\ clicks = 0
    /\ call_outcome = [status |-> "none", answer |-> ""]

----------------------------------------------------------------------------
(* The specifications. *)

\* one call of calculate_metrics on every frame and pair of rates
Init ==
    /\ CalcInit(Frames(RowUniverse, MaxRows), RatePairs)
    /\ UIInit({[has |-> TRUE, key |-> "k"]})

Next == Enter \/ Iterate \/ Return

Spec == Init /\ [][Next]_vars

\* calls of calculate_metrics one after another, as the script's runs make them
InitCalls ==
    /\ CalcInit(RepeatFrames, RepeatRates)
    /\ UIInit({[has |-> TRUE, key |-> "k"]})

NextCalls == Enter \/ Iterate \/ Return \/ NewCall

SpecCalls == InitCalls /\ [][NextCalls]_vars

\* the runs of the script in one browser session
InitUI ==
    /\ CalcInit({<<>>}, {<<Rat(63, 2), Rat(24, 25)>>})
    /\ UIInit(SecretsChoices)

NextUI ==
    \/ BeginRun \/ ReadSecrets \/ InitSession \/ UnlockButton \/ UnlockCheck
    \/ ModelSelect \/ LoadCsv \/ ToggleKpi \/ GeminiButton

SpecUI == InitUI /\ [][NextUI]_vars

----------------------------------------------------------------------------
(* The claims about calculate_metrics.                                     *)

\* the number a row's Amount stands for (NaN when it is not numeric)
AmountOf(row) == to_numeric(RowGet(row, "Amount", Num(Zero)))

Malformed(row) == isna(AmountOf(row))

\* the rate a row's currency calls for: one multiplication, by one rate
RateOf(row, usd, thb) ==
    LET curr == RowGet(row, "Currency", Str("TWD")) IN
    IF curr = Str("USD") THEN usd ELSE IF curr = Str("THB") THEN thb ELSE Rat(1, 1)

CategoryOf(row) == RowGet(row, "Category", Str(""))
FrequencyOf(row) == RowGet(row, "Frequency", Str(""))

ZeroResult == <<Zero, Zero, Zero, Zero>>

\* a loop step: the row df[idx] has just been processed
RowProcessed == cpc = "loop" /\ idx <= Len(df) /\ idx' = idx + 1

\* C1: the loop of a call is always at a row of the frame or past its last
\* row, where the call returns; and what the call returns is four numbers,
\* those it returns for the frame without the rows whose Amount is not
\* numeric: such a row adds nothing to any of the four totals.
C1_MalformedRowsContributeNothing ==
    /\ cpc = "loop" => idx \in 1..(Len(df) + 1)
    /\ cpc = "returned" => \A k \in 1..4 : ~isna(result[k])
    /\ cpc = "returned" =>
          result = calculate_metrics(SelectSeq(df, LAMBDA r : ~Malformed(r)),
                                     usdtwd, thbtwd, FREQ_TO_MONTHS)

C1_Witness ==
    /\ cpc = "returned"
    /\ Len(df) = 2
    /\ RowGet(df[1], "Amount", Num(Zero)) = Str(<<"N", "/", "A">>)
    /\ CategoryOf(df[1]) = Str(ZH_ASSET)
    /\ ~Malformed(df[2])
    /\ CategoryOf(df[2]) = Str(ZH_ASSET)
    /\ result[1] # Zero

\* the alias of a category label, in either direction
AliasOf(cat) ==
    CASE cat = Str(ZH_ASSET) -> Str("Asset")
      [] cat = Str("Asset") -> Str(ZH_ASSET)
      [] cat = Str(ZH_LIABILITY) -> Str("Liability")
      [] cat = Str("Liability") -> Str(ZH_LIABILITY)
      [] cat = Str(ZH_INCOME) -> Str("Income")
      [] cat = Str("Income") -> Str(ZH_INCOME)
      [] cat = Str(ZH_EXPENSE) -> Str("Expense")
      [] cat = Str("Expense") -> Str(ZH_EXPENSE)
      [] OTHER -> cat

HasCategory(d) == d # <<>> /\ "Category" \in DOMAIN d[1]

\* the frame with the category label of row i replaced by its alias
WithAlias(d, i) ==
    [j \in DOMAIN d |-> IF j = i THEN [d[j] EXCEPT !.Category = AliasOf(@)] ELSE d[j]]

IsEnglishLabel(cat) == \E c \in EnCategories : cat = Str(c)

\* the frame with an English category label of row i replaced by Other
WithOther(d, i) ==
    [j \in DOMAIN d |->
        IF j = i /\ IsEnglishLabel(d[j].Category)
        THEN [d[j] EXCEPT !.Category = Str("Other")]
        ELSE d[j]]

DivisorOf(row) ==
    LET cat == CategoryOf(row)
        freq == FrequencyOf(row)
    IN  IF cat \in {Str(ZH_ASSET), Str(ZH_LIABILITY)} THEN 1
        ELSE IF cat \in {Str(ZH_INCOME), Str(ZH_EXPENSE)}
             THEN IF freq \in {Str("Monthly"), Str(ZH_MONTHLY)} THEN 1
                  ELSE IF freq \in {Str("Quarterly"), Str(ZH_QUARTERLY)} THEN 3
                  ELSE IF freq \in {Str("Yearly"), Str(ZH_YEARLY)} THEN 12
                  ELSE None
             ELSE None

\* C3: a well-formed record adds to the total of its category its amount
\* times usdtwd for USD, times thbtwd for THB, and the amount itself for TWD,
\* an unknown or a missing currency, divided by the months of its frequency:
\* one multiplication, by one rate, made before the division and the sum.
C3_ConvertedExactlyOnce ==
    [][RowProcessed /\ ~Malformed(df[idx]) /\ DivisorOf(df[idx]) # None =>
          LET converted == Mul(AmountOf(df[idx]), RateOf(df[idx], usdtwd, thbtwd))
              share == Div(converted, DivisorOf(df[idx]))
              cat == CategoryOf(df[idx])
          IN  CASE cat = Str(ZH_ASSET) -> total_asset' = Add(total_asset, share)
                [] cat = Str(ZH_LIABILITY) -> total_liability' = Add(total_liability, share)
                [] cat = Str(ZH_INCOME) -> monthly_income' = Add(monthly_income, share)
                [] cat = Str(ZH_EXPENSE) -> monthly_expense' = Add(monthly_expense, share)]_vars

C3_Witness ==
    /\ cpc = "loop" /\ idx = 3
    /\ RowGet(df[1], "Currency", Str("TWD")) = Str("USD")
    /\ RowGet(df[2], "Currency", Str("TWD")) = Str("THB")
    /\ CategoryOf(df[1]) = Str(ZH_ASSET) /\ CategoryOf(df[2]) = Str(ZH_ASSET)
    /\ ~Malformed(df[1]) /\ ~Malformed(df[2])
    /\ usdtwd = Rat(63, 2)
    /\ total_asset = Add(Mul(AmountOf(df[1]), usdtwd), Mul(AmountOf(df[2]), thbtwd))

\* C4: an income (expense) record with a numeric amount adds its converted
\* amount to monthly_income (monthly_expense) for Monthly, a third of it for
\* Quarterly, a twelfth for Yearly, and nothing for any other or a missing
\* frequency; the other monthly total stays.
C4_FrequencyNormalization ==
    [][RowProcessed /\ ~Malformed(df[idx])
          /\ CategoryOf(df[idx]) \in {Str(ZH_INCOME), Str(ZH_EXPENSE)} =>
          LET converted == Mul(AmountOf(df[idx]), RateOf(df[idx], usdtwd, thbtwd))
              months == DivisorOf(df[idx])
              share == IF months = None THEN Zero ELSE Div(converted, months)
          IN  IF CategoryOf(df[idx]) = Str(ZH_INCOME)
              THEN /\ monthly_income' = Add(monthly_income, share)
                   /\ monthly_expense' = monthly_expense
              ELSE /\ monthly_expense' = Add(monthly_expense, share)
                   /\ monthly_income' = monthly_income]_vars

C4_Witness ==
    /\ cpc = "returned"
    /\ Len(df) = 2
    /\ CategoryOf(df[1]) = Str(ZH_INCOME) /\ FrequencyOf(df[1]) = Str(ZH_QUARTERLY)
    /\ RowGet(df[1], "Currency", Str("TWD")) = Str("USD")
    /\ CategoryOf(df[2]) = Str(ZH_INCOME) /\ FrequencyOf(df[2]) = Str(ZH_ONCE)
    /\ ~Malformed(df[1]) /\ ~Malformed(df[2])
    /\ usdtwd = Rat(63, 2)
    /\ result = <<Zero, Zero, Div(Mul(AmountOf(df[1]), usdtwd), 3), Zero>>

Permuted(d, p) == [i \in DOMAIN d |-> d[p[i]]]

\* C5: the call returns what it returns for every permutation of the frame.
C5_OrderIndependent ==
    cpc = "returned" =>
        \A p \in Permutations(DOMAIN df) :
            calculate_metrics(Permuted(df, p), usdtwd, thbtwd, FREQ_TO_MONTHS) = result

C5_Witness ==
    /\ cpc = "returned"
    /\ Len(df) = 2
    /\ df[1] # df[2]
    /\ CategoryOf(df[1]) = Str(ZH_INCOME) /\ CategoryOf(df[2]) = Str(ZH_INCOME)
    /\ DivisorOf(df[1]) = 3 /\ DivisorOf(df[2]) = 12
    /\ ~Malformed(df[1]) /\ ~Malformed(df[2])
    /\ result[3] # Zero

ChangedTotals ==
    {k \in 1..4 : AsTuple(Totals)[k] # <<total_asset', total_liability',
                                         monthly_income', monthly_expense'>>[k]}

\* C6: a loop step changes at most one of the four running totals, and none
\* for a record whose category is not one of the four ledger categories.
C6_AtMostOneBucket ==
    [][RowProcessed =>
          /\ Cardinality(ChangedTotals) <= 1
          /\ (\A c \in ZhCategories : CategoryOf(df[idx]) # Str(c)) => ChangedTotals = {}]_vars

C6_Witness ==
    /\ cpc = "loop" /\ idx = 3
    /\ CategoryOf(df[1]) = Str(ZH_EXPENSE) /\ ~Malformed(df[1]) /\ DivisorOf(df[1]) = 1
    /\ CategoryOf(df[2]) = Str("Other") /\ ~Malformed(df[2])
    /\ thbtwd = Rat(-3, 1)
    /\ AsTuple(Totals) = <<Zero, Zero, Zero, monthly_expense>>
    /\ monthly_expense # Zero

\* C7: for the empty frame the call returns (0, 0, 0, 0), whatever the rates.
C7_EmptyInput ==
    /\ cpc = "returned" /\ df = <<>> => result = ZeroResult
    /\ df = <<>> /\ cpc # "returned" => ENABLED Next

C7_Witness ==
    /\ cpc = "returned"
    /\ df = <<>>
    /\ usdtwd = Zero
    /\ result = ZeroResult

SameInputs ==
    /\ first_call.made
    /\ first_call.df = df /\ first_call.usdtwd = usdtwd /\ first_call.thbtwd = thbtwd

\* C8: a call returns what the first call of the session returned whenever
\* its frame and rates are those of the first call, whatever calls were made
\* in between; and a call leaves its frame, the rates and FREQ_TO_MONTHS as
\* they were.
C8_StatelessCalls ==
    /\ [](cpc = "returned" /\ SameInputs => result = first_call.result)
    /\ [][cpc # "returned" =>
             df' = df /\ usdtwd' = usdtwd /\ thbtwd' = thbtwd
             /\ FREQ_TO_MONTHS' = FREQ_TO_MONTHS]_vars
    /\ [](FREQ_TO_MONTHS = FreqTable)

C8_Witness ==
    /\ cpc = "returned"
    /\ SameInputs
    /\ Len(df) = 2
    /\ result = first_call.result
    /\ result[1] # Zero /\ result[3] # Zero

----------------------------------------------------------------------------
(* The claims about the session state.                                     *)

ChatOf(s) == IF "chat_history" \in DOMAIN s THEN s["chat_history"] ELSE <<>>

\* C9: a press of the analysis button whose model call succeeds appends the
\* round (the question asked, the answer given) at the end of chat_history;
\* every other step, a press whose model call raises included, leaves
\* chat_history as it is.
C9_ChatAppendOnly ==
    [][IF pc = "chat" /\ event.type = "analyze" /\ call_outcome'.status = "ok"
       THEN ChatOf(session') = Append(ChatOf(session),
                                      [question |-> event.arg,
                                       answer |-> call_outcome'.answer])
       ELSE ChatOf(session') = ChatOf(session)]_vars

C9_Witness ==
    /\ pc = "idle"
    /\ call_outcome.status = "raised"
    /\ event = Ev("analyze", "q1", TRUE)
    /\ ChatOf(session) = <<[question |-> "q2", answer |-> "a1"]>>

Shown(s) == "show_model_list" \in DOMAIN s /\ s["show_model_list"]

\* a run of the script has ended: the script waits, or starts over
RunEnded == pc \in {"idle", "secrets"}

C10_State ==
    "show_model_list" \in DOMAIN session =>
        /\ Shown(session) => clicks = 5
        /\ RunEnded =>
              /\ Shown(session) <=> clicks = 5
              /\ session["dev_unlock_count"] \in 0..4
              /\ Shown(session) => session["dev_unlock_count"] = 0

C10_Step ==
    /\ Shown(session) => Shown(session')
    /\ "selected_model_name" \in DOMAIN session
          /\ session'["selected_model_name"] # session["selected_model_name"]
          => Shown(session) /\ Shown(session')

\* C10: the model list is shown from the 5th click of the current-model
\* button on and not before; when a run of the script has ended,
\* dev_unlock_count is in 0..4, and is 0 if the list is shown; the list, once
\* shown, stays shown; selected_model_name changes only while it is shown.
C10_HiddenUnlock == []C10_State /\ [][C10_Step]_vars

C10_Witness ==
    /\ pc = "idle"
    /\ Shown(session)
    /\ clicks = 5
    /\ session["dev_unlock_count"] = 0
    /\ session["selected_model_name"] = "models/gemini-2.0-flash"
====
